---- MODULE Spec2Model ----
(***************************************************************************)
(* A model of the spike-train preparation code of spikebench / pyspikelib: *)
(*   - TrainNormalizeTransform (rolling_window, transform),                *)
(*   - the group-aware train/test split of the loaders,                    *)
(*   - TsfreshVectorizeTransform.get_feature_dict,                         *)
(*   - TsfreshFeaturePreprocessorPipeline.construct_pipeline.              *)
(* numpy arrays are sequences (1-D) and sequences of sequences (2-D);      *)
(* Python's None is the string "None"; a raised exception is recorded by   *)
(* its class name in the `kind` field of a result.                         *)
(***************************************************************************)
EXTENDS Integers, Sequences, FiniteSets, TLC

\* ------------------------------------------------------------------ bounds
MaxLen == 4        \* longest series handed to rolling_window
MaxVal == 2        \* series values are 0..MaxVal
MaxWindow == 3     \* window sizes are -1..MaxWindow
MaxStep == 2       \* step sizes are -1..MaxStep

Vals == 0..MaxVal
WindowVals == (-1)..MaxWindow
StepVals == (-1)..MaxStep
TLen == 2          \* longest series handed to transform; windows and steps are -1..TLen
NSeries == 2       \* most series in one call of transform
TSamples == 2      \* n_samples is None or -1..TSamples
LSeries == 3       \* most series a loader stacks
LGroups == 3       \* a loader's group identifiers are 1..LGroups
MaxKeep == 2       \* longest keep_features_list

\* all sequences over S of length at most n
SeqUpTo(S, n) == UNION {[1..k -> S] : k \in 0..n}

Min(a, b) == IF a < b THEN a ELSE b
Max(a, b) == IF a > b THEN a ELSE b

\* ------------------------------------------------------------- python/numpy
\* Python's // on ints, b # 0: rounds towards minus infinity
PyFloorDiv(a, b) == IF b > 0 THEN a \div b ELSE (-a) \div (-b)

\* range(n): the indices 0..n-1, empty when n <= 0
PyRange(n) == [k \in 1..Max(n, 0) |-> k - 1]

\* np.roll(a, shift): element j moves to (j + shift) mod N, wrapping around
NpRoll(a, shift) ==
  [j \in 1..Len(a) |-> a[((j - 1 - shift) % Len(a)) + 1]]

\* a[:stop] on a 1-D array: a negative stop counts from the end
PySliceTo(a, stop) ==
  IF stop >= 0 THEN SubSeq(a, 1, Min(stop, Len(a)))
  ELSE SubSeq(a, 1, Max(Len(a) + stop, 0))

\* ndarray.any(): whether some element is truthy (non-zero)
NpAny2D(chunks) ==
  \E i \in DOMAIN chunks : \E j \in DOMAIN chunks[i] : chunks[i][j] # 0

\* ---------------------------------------------------------- rolling_window
NoneResult == [kind |-> "None", rows |-> <<>>]
Raised(exc) == [kind |-> exc, rows |-> <<>>]

\* n_chunks = (a.shape[0] - window) // step + 1
n_chunks(a, window, step) == PyFloorDiv(Len(a) - window, step) + 1

\* [np.roll(a, -step * index)[:window] for index in range(n_chunks)]
split_chunks(a, window, step) ==
  LET r == PyRange(n_chunks(a, window, step))
  IN  [k \in DOMAIN r |-> PySliceTo(NpRoll(a, -step * r[k]), window)]

\* if split_chunks.any(): whether the chunks are stacked and returned
chunks_kept(chunks) == NpAny2D(chunks)

rolling_window(a, window, step) ==
  IF step = 0 THEN Raised("ZeroDivisionError")
  ELSE LET chunks == split_chunks(a, window, step)
       IN  IF chunks_kept(chunks)
           THEN [kind |-> "array", rows |-> chunks]
           ELSE NoneResult

\* ------------------------------------------------ TrainNormalizeTransform
\* An accumulated row: the window's values, and (for the properties only) the
\* index of the series it was cut from and its window index in that series.
Row(vals, src, idx) == [vals |-> vals, src |-> src, idx |-> idx]

\* [v] * n
Replicate(v, n) == [k \in 1..n |-> v]

\* mutant of append_target: the arguments of np.append swapped, so the labels
\* of a later series land before those of the earlier ones
append_target_swapped(target, label, chunks) ==
  Replicate(label, Len(chunks)) \o target

\* target = np.append(target, [y[train_index]] * split_chunks.shape[0])
append_target(target, label, chunks) == target \o Replicate(label, Len(chunks))

\* the group vector kept in step with the rows, one group per window
append_groups(grp, group, chunks) == grp \o Replicate(group, Len(chunks))

\* np.vstack([normalized_trains, split_chunks]): the column counts must agree
vstack_ok(window, chunks) == \A k \in DOMAIN chunks : Len(chunks[k]) = window

\* the loop of transform over X.series.values, from series i on;
\* acc.stacked tells whether normalized_trains has become 2-D
RECURSIVE accumulate(_, _, _, _, _, _, _)
accumulate(X, y, groups, window, step, i, acc) ==
  IF i > Len(X) THEN acc
  ELSE LET r == rolling_window(X[i], window, step)
       IN  CASE r.kind = "None" ->
                  accumulate(X, y, groups, window, step, i + 1, acc)
             [] r.kind = "array" ->
                  IF vstack_ok(window, r.rows)
                  THEN accumulate(X, y, groups, window, step, i + 1,
                         [kind |-> "ok",
                          stacked |-> TRUE,
                          rows |-> acc.rows \o
                                   [k \in DOMAIN r.rows |-> Row(r.rows[k], i, k - 1)],
                          target |-> append_target(acc.target, y[i], r.rows),
                          groups |-> append_groups(acc.groups, groups[i], r.rows)])
                  ELSE [acc EXCEPT !.kind = "ValueError"]
             [] OTHER -> [acc EXCEPT !.kind = r.kind]

\* np.zeros(self.window): the all-zero row that seeds the accumulator; it is
\* cut from no series (src 0)
seed_row(window) == Row([k \in 1..window |-> 0], 0, 0)

\* normalized_trains = np.zeros(self.window); target = np.array([])
empty_acc(window) ==
  [kind |-> "ok", stacked |-> FALSE, rows |-> <<seed_row(window)>>,
   target |-> <<>>, groups |-> <<>>]

\* mutant of drop_seed: the last row cut off instead of the first
drop_last(rows) == SubSeq(rows, 1, Len(rows) - 1)

\* normalized_trains = normalized_trains[1:, :]
drop_seed(rows) == Tail(rows)

Failed(exc) ==
  [kind |-> exc, rows |-> <<>>, target |-> <<>>, groups |-> <<>>, sampled |-> <<>>]

\* np.random.choice(n, k): the index vectors it can return (1-based here)
random_choice(n, k) == [1..k -> 1..n]

\* a[sampled_indices]
take(a, sampled) == [k \in DOMAIN sampled |-> a[sampled[k]]]

\* n_samples is <<>> for None and <<k>> for the integer k
None == <<>>

\* the outcomes of transform(X, y) on a transformer (window, step, n_samples)
transform(X, y, groups, window, step, n_samples) ==
  IF window < 0 THEN {Failed("ValueError")}                     \* np.zeros
  ELSE LET acc == accumulate(X, y, groups, window, step, 1, empty_acc(window))
           trains == drop_seed(acc.rows)
       IN  IF acc.kind # "ok" THEN {Failed(acc.kind)}
           ELSE IF ~acc.stacked THEN {Failed("IndexError")}     \* [1:, :] on 1-D
           ELSE IF n_samples = None
                THEN {[kind |-> "ok", rows |-> trains, target |-> acc.target,
                       groups |-> acc.groups, sampled |-> <<>>]}
           ELSE IF n_samples[1] < 0 THEN {Failed("ValueError")} \* random.choice
           ELSE IF n_samples[1] = 0 THEN {Failed("ValueError")} \* vstack of no rows
           ELSE {[kind |-> "ok",
                  rows |-> take(trains, s),
                  target |-> take(acc.target, s),
                  groups |-> take(acc.groups, s),
                  sampled |-> s] : s \in random_choice(Len(trains), n_samples[1])}

\* ------------------------------------------------------------- loaders
\* np.flatnonzero(mask): the indices where mask holds, ascending
RECURSIVE flatnonzero(_, _)
flatnonzero(mask, i) ==
  IF i > Len(mask) THEN <<>>
  ELSE (IF mask[i] THEN <<i>> ELSE <<>>) \o flatnonzero(mask, i + 1)

\* np.unique(groups): the distinct group identifiers
unique(g) == {g[i] : i \in DOMAIN g}

\* the elements of a sequence of indices, as a set
Range(s) == {s[i] : i \in DOMAIN s}

\* ceil(test_size * n) for a test size given in tenths
n_test_of(tenths, n) == (tenths * n + 9) \div 10

SplitFailed(exc) == [kind |-> exc, train_index |-> <<>>, test_index |-> <<>>]

\* mutant of group_shuffle_split: ShuffleSplit, which draws the test fraction
\* among the series and ignores their groups
shuffle_split(g, tenths) ==
  LET n == Len(g)
      n_test == n_test_of(tenths, n)
  IN  IF n = 0 \/ n - n_test = 0 THEN {SplitFailed("ValueError")}
      ELSE {[kind |-> "ok",
             train_index |-> flatnonzero([i \in DOMAIN g |-> i \notin T], 1),
             test_index |-> flatnonzero([i \in DOMAIN g |-> i \in T], 1)]
              : T \in {S \in SUBSET DOMAIN g : Cardinality(S) = n_test}}

\* GroupShuffleSplit(n_splits=1, test_size, random_state).split(X, y, groups):
\* the test fraction is drawn among the distinct groups (which ones depends on
\* the seed), and a series goes where its group went
group_shuffle_split(g, tenths) ==
  LET classes == unique(g)
      n == Cardinality(classes)
      n_test == n_test_of(tenths, n)
  IN  IF n = 0 \/ n - n_test = 0 THEN {SplitFailed("ValueError")}
      ELSE {[kind |-> "ok",
             train_index |-> flatnonzero([i \in DOMAIN g |-> g[i] \notin T], 1),
             test_index |-> flatnonzero([i \in DOMAIN g |-> g[i] \in T], 1)]
              : T \in {S \in SUBSET classes : Cardinality(S) = n_test}}

LoadFailed(exc) == [kind |-> exc, train |-> Failed(exc), test |-> Failed(exc)]

\* encode_spike_trains with encoding='isi': the normalizer on the train
\* partition, then on the test partition; n_samples is left at None
encode_spike_trains(Xtr, Xte, ytr, yte, gtr, gte, w, s) ==
  LET tr == CHOOSE r \in transform(Xtr, ytr, gtr, w, s, None) : TRUE
      te == CHOOSE r \in transform(Xte, yte, gte, w, s, None) : TRUE
  IN  IF tr.kind # "ok" THEN LoadFailed(tr.kind)
      ELSE IF te.kind # "ok" THEN LoadFailed(te.kind)
      ELSE [kind |-> "ok", train |-> tr, test |-> te]

\* ------------------------------------------------------- feature taxonomy
\* A feature dictionary is a function from feature names to a tag of the
\* parameter list: "None", a literal grid, or "tsfresh" for the collaborator's.
Some(v) == <<v>>

\* ComprehensiveFCParameters(): the names every tsfresh release of the
\* 0.1x series offers ...
TsfreshCoreNames ==
  {"variance_larger_than_standard_deviation", "has_duplicate_max",
   "has_duplicate_min", "has_duplicate", "sum_values", "abs_energy",
   "mean_abs_change", "mean_change", "mean_second_derivative_central",
   "median", "mean", "length", "standard_deviation", "variance", "skewness",
   "kurtosis", "absolute_sum_of_changes", "longest_strike_below_mean",
   "longest_strike_above_mean", "count_above_mean", "count_below_mean",
   "last_location_of_maximum", "first_location_of_maximum",
   "last_location_of_minimum", "first_location_of_minimum",
   "percentage_of_reoccurring_datapoints_to_all_datapoints",
   "percentage_of_reoccurring_values_to_all_values",
   "sum_of_reoccurring_values", "sum_of_reoccurring_data_points",
   "ratio_value_number_to_time_series_length", "sample_entropy", "maximum",
   "minimum", "time_reversal_asymmetry_statistic", "c3", "cid_ce",
   "symmetry_looking", "large_standard_deviation", "quantile",
   "autocorrelation", "agg_autocorrelation", "partial_autocorrelation",
   "number_cwt_peaks", "number_peaks", "binned_entropy",
   "index_mass_quantile", "cwt_coefficients", "spkt_welch_density",
   "ar_coefficient", "change_quantiles", "fft_coefficient", "fft_aggregated",
   "value_count", "range_count", "approximate_entropy",
   "friedrich_coefficients", "max_langevin_fixed_point", "linear_trend",
   "agg_linear_trend", "augmented_dickey_fuller", "number_crossing_m",
   "energy_ratio_by_chunks", "ratio_beyond_r_sigma"}

\* ... and names only some releases offer
TsfreshVersionNames ==
  {"linear_trend_timewise", "count_above", "count_below",
   "lempel_ziv_complexity", "fourier_entropy", "permutation_entropy"}

\* full_feature_dict = ComprehensiveFCParameters(), for a release offering `extra`
full_feature_dict(extra) ==
  [key \in TsfreshCoreNames \cup extra |-> "tsfresh"]

\* simple_baseline_features = {key: None for key in [...]}
simple_baseline_features ==
  [key \in {"abs_energy", "mean", "median", "minimum", "maximum",
            "standard_deviation"} |-> "None"]

\* mutant of distribution_features_tsfresh_dict: the entry 'median' left out
distribution_features_without_median ==
  [key \in {"symmetry_looking", "standard_deviation", "kurtosis",
            "variance_larger_than_standard_deviation", "ratio_beyond_r_sigma",
            "count_below_mean", "maximum", "variance", "abs_energy", "mean",
            "skewness", "length", "large_standard_deviation",
            "count_above_mean", "minimum", "sum_values", "quantile",
            "ratio_value_number_to_time_series_length"} |-> "None"]

\* utils.distribution_features_tsfresh_dict()
distribution_features_tsfresh_dict ==
  [key \in {"symmetry_looking", "standard_deviation", "kurtosis",
            "variance_larger_than_standard_deviation", "ratio_beyond_r_sigma",
            "count_below_mean", "maximum", "variance", "abs_energy", "mean",
            "skewness", "length", "large_standard_deviation",
            "count_above_mean", "minimum", "sum_values", "quantile",
            "ratio_value_number_to_time_series_length", "median"} |->
     CASE key = "symmetry_looking" -> "r in arange(0.05, 1.0, 0.05)"
       [] key = "large_standard_deviation" -> "r in arange(0.05, 1.0, 0.05)"
       [] key = "ratio_beyond_r_sigma" -> "r in [1, 1.5, 2, 2.5, 3, 5, 6, 7, 10]"
       [] key = "quantile" -> "q in arange(0.1, 1.0, 0.1)"
       [] OTHER -> "None"]

\* mutant of temporal_feature_dict: the baseline subtracted instead of the
\* distribution features
temporal_minus_baseline(full) ==
  [key \in DOMAIN full \ DOMAIN simple_baseline_features |-> full[key]]

\* temporal_feature_dict = {key: full_feature_dict[key]
\*     for key in set(full_feature_dict) - set(distribution_features_dict)}
temporal_feature_dict(full) ==
  [key \in DOMAIN full \ DOMAIN distribution_features_tsfresh_dict |-> full[key]]

\* feature_dict = {'simple_baseline': ..., 'distribution_features': ...,
\*                 'temporal_features': ...}
feature_dict(full) ==
  [simple_baseline |-> simple_baseline_features,
   distribution_features |-> distribution_features_tsfresh_dict,
   temporal_features |-> temporal_feature_dict(full)]

\* return feature_dict.get(feature_set, full_feature_dict)
get_feature_dict(full, feature_set) ==
  IF feature_set \in DOMAIN feature_dict(full)
  THEN feature_dict(full)[feature_set]
  ELSE full

\* ------------------------------------------------- preprocessing pipeline
Step(name, kind, func, arg, copy) ==
  [name |-> name, kind |-> kind, func |-> func, arg |-> arg, copy |-> copy]

\* mutant of construct_pipeline: the scaling step appended before imputation
construct_pipeline_scaling_first(impute, do_scaling, remove_low_variance, keep_features_list) ==
     (IF keep_features_list # None
      THEN <<Step("select_features", "DFTransform", "_select_features",
                  keep_features_list, FALSE)>>
      ELSE <<>>)
  \o (IF do_scaling
      THEN <<Step("standard_scaling", "StandardScaler", "", None, FALSE)>>
      ELSE <<>>)
  \o (IF impute
      THEN <<Step("imputation", "DFTransform", "_tsfresh_imputation", None, FALSE)>>
      ELSE <<>>)
  \o (IF remove_low_variance
      THEN <<Step("low_var_removal", "DFTransform", "_low_variance_removal",
                  None, TRUE)>>
      ELSE <<>>)

\* construct_pipeline: chained_transformers after the four `if`s, as handed
\* to Pipeline
construct_pipeline(impute, do_scaling, remove_low_variance, keep_features_list) ==
     (IF keep_features_list # None
      THEN <<Step("select_features", "DFTransform", "_select_features",
                  keep_features_list, FALSE)>>
      ELSE <<>>)
  \o (IF impute
      THEN <<Step("imputation", "DFTransform", "_tsfresh_imputation", None, FALSE)>>
      ELSE <<>>)
  \o (IF do_scaling
      THEN <<Step("standard_scaling", "StandardScaler", "", None, FALSE)>>
      ELSE <<>>)
  \o (IF remove_low_variance
      THEN <<Step("low_var_removal", "DFTransform", "_low_variance_removal",
                  None, TRUE)>>
      ELSE <<>>)

\* ------------------------------------------------------------------- state
VARIABLES
  rw_a, rw_window, rw_step,   \* the arguments of a rolling_window call
  rw_out,                     \* its result, "pending" before the call
  window, step, n_samples,    \* the fields of a TrainNormalizeTransform
  X, y, groups,               \* the series, labels and groups handed to transform
  out,                        \* what transform returned or raised
  ld_X, ld_y, ld_groups,      \* a loader's stacked series, labels and groups
  test_size,                  \* its test fraction, in tenths
  window_size, step_size,     \* its window and step
  split,                      \* train_index and test_index of its split
  loaded,                     \* what the loader returned or raised
  fc_extra,                   \* the version-dependent names of the tsfresh catalog
  feature_set,                \* the argument of get_feature_dict
  fc_dict,                    \* its local feature_dict, <<>> before the call
  fc_out,                     \* the dictionary it returned, <<>> before the call
  impute, do_scaling, remove_low_variance, keep_features_list,
                              \* the fields of a TsfreshFeaturePreprocessorPipeline
  pipeline                    \* None, or Some(steps) once construct_pipeline ran

rw_vars == <<rw_a, rw_window, rw_step, rw_out>>
tr_vars == <<window, step, n_samples, X, y, groups, out>>
ld_vars == <<ld_X, ld_y, ld_groups, test_size, window_size, step_size, split, loaded>>
fc_vars == <<fc_extra, feature_set, fc_dict, fc_out>>
pp_vars == <<impute, do_scaling, remove_low_variance, keep_features_list, pipeline>>
vars == <<rw_vars, tr_vars, ld_vars, fc_vars, pp_vars>>

Pending == [kind |-> "pending", rows |-> <<>>]

RWIdle ==
  /\ rw_a = <<>> /\ rw_window = 0 /\ rw_step = 0 /\ rw_out = Pending

TRIdle ==
  /\ window = 0 /\ step = 0 /\ n_samples = None
  /\ X = <<>> /\ y = <<>> /\ groups = <<>> /\ out = Failed("pending")

LDIdle ==
  /\ ld_X = <<>> /\ ld_y = <<>> /\ ld_groups = <<>>
  /\ test_size = 0 /\ window_size = 0 /\ step_size = 0
  /\ split = SplitFailed("pending") /\ loaded = LoadFailed("pending")

FCIdle ==
  /\ fc_extra = {} /\ feature_set = "None" /\ fc_dict = <<>> /\ fc_out = <<>>

PPIdle ==
  /\ impute = FALSE /\ do_scaling = FALSE /\ remove_low_variance = FALSE
  /\ keep_features_list = None /\ pipeline = None

\* ------------------------------------------- specification: rolling_window
RWInit ==
  /\ rw_a \in SeqUpTo(Vals, MaxLen)
  /\ rw_window \in WindowVals
  /\ rw_step \in StepVals
  /\ rw_out = Pending
  /\ TRIdle /\ LDIdle /\ FCIdle /\ PPIdle

RollingWindow ==
  /\ rw_out.kind = "pending"
  /\ rw_out' = rolling_window(rw_a, rw_window, rw_step)
  /\ UNCHANGED <<rw_a, rw_window, rw_step, tr_vars, ld_vars, fc_vars, pp_vars>>

RWNext == RollingWindow

SpecRW == RWInit /\ [][RWNext]_vars

\* ------------------------------- specification: TrainNormalizeTransform
\* the vectors the loaders build for m series of which the first k are of the
\* first class: y is ones then zeros, and the two classes are cut from the
\* same recordings, so the group identifiers restart with the second class
LabelVector(m, k) == [i \in 1..m |-> IF i <= k THEN 1 ELSE 0]
GroupVector(m, k) == [i \in 1..m |-> IF i <= k THEN i ELSE i - k]

TRInit ==
  /\ window \in (-1)..TLen
  /\ step \in (-1)..TLen
  /\ n_samples \in {None} \cup {<<k>> : k \in (-1)..TSamples}
  /\ X \in SeqUpTo(SeqUpTo(0..1, TLen), NSeries)
  /\ \E k \in 0..Len(X) :
       /\ y = LabelVector(Len(X), k)
       /\ groups = GroupVector(Len(X), k)
  /\ out = Failed("pending")
  /\ RWIdle /\ LDIdle /\ FCIdle /\ PPIdle

Transform ==
  /\ out.kind = "pending"
  /\ out' \in transform(X, y, groups, window, step, n_samples)
  /\ UNCHANGED <<window, step, n_samples, X, y, groups, rw_vars, ld_vars, fc_vars, pp_vars>>

TRNext == Transform

Spec == TRInit /\ [][TRNext]_vars

\* ------------------------------------------------ specification: loaders
\* the series of a recording: inter-spike intervals, all positive
LoaderSeries == {<<1>>, <<1, 1>>}
LoaderWindows == {1, 2}
TestSizes == {3, 5, 7}

\* load_fcx1, load_retina, load_allen, load_temporal after the np.hstack calls
LDInit ==
  /\ ld_X \in SeqUpTo(LoaderSeries, LSeries)
  /\ ld_groups \in [1..Len(ld_X) -> 1..LGroups]
  /\ \E k \in 0..Len(ld_X) : ld_y = LabelVector(Len(ld_X), k)
  /\ test_size \in TestSizes
  /\ window_size \in LoaderWindows
  /\ step_size \in LoaderWindows
  /\ split = SplitFailed("pending")
  /\ loaded = LoadFailed("pending")
  /\ RWIdle /\ TRIdle /\ FCIdle /\ PPIdle

\* the rest of a loader: the group split, then encode_spike_trains on the
\* two partitions
Load ==
  /\ loaded.kind = "pending"
  /\ \E sp \in group_shuffle_split(ld_groups, test_size) :
       /\ split' = sp
       /\ loaded' =
            IF sp.kind # "ok" THEN LoadFailed(sp.kind)
            ELSE encode_spike_trains(
                   take(ld_X, sp.train_index), take(ld_X, sp.test_index),
                   take(ld_y, sp.train_index), take(ld_y, sp.test_index),
                   take(ld_groups, sp.train_index), take(ld_groups, sp.test_index),
                   window_size, step_size)
  /\ UNCHANGED <<ld_X, ld_y, ld_groups, test_size, window_size, step_size,
                 rw_vars, tr_vars, fc_vars, pp_vars>>

LDNext == Load

SpecSplit == LDInit /\ [][LDNext]_vars

\* --------------------------------------- specification: feature taxonomy
FeatureSetNames ==
  {"simple_baseline", "distribution_features", "temporal_features",
   "None", "no_such_set"}

FCInit ==
  /\ fc_extra \in SUBSET TsfreshVersionNames
  /\ feature_set \in FeatureSetNames
  /\ fc_dict = <<>>
  /\ fc_out = <<>>
  /\ RWIdle /\ TRIdle /\ LDIdle /\ PPIdle

GetFeatureDict ==
  /\ fc_dict = <<>>
  /\ fc_dict' = feature_dict(full_feature_dict(fc_extra))
  /\ fc_out' = get_feature_dict(full_feature_dict(fc_extra), feature_set)
  /\ UNCHANGED <<fc_extra, feature_set, rw_vars, tr_vars, ld_vars, pp_vars>>

FCNext == GetFeatureDict

SpecFeat == FCInit /\ [][FCNext]_vars

\* ------------------------------- specification: preprocessing pipeline
FeatureLists == SeqUpTo({"f1", "f2"}, MaxKeep)

\* TsfreshFeaturePreprocessorPipeline(impute, do_scaling, remove_low_variance,
\*                                    keep_features_list)
PPInit ==
  /\ impute \in BOOLEAN
  /\ do_scaling \in BOOLEAN
  /\ remove_low_variance \in BOOLEAN
  /\ keep_features_list \in {None} \cup {Some(l) : l \in FeatureLists}
  /\ pipeline = None
  /\ RWIdle /\ TRIdle /\ LDIdle /\ FCIdle

ConstructPipeline ==
  /\ pipeline = None
  /\ pipeline' = Some(construct_pipeline(impute, do_scaling, remove_low_variance,
                                         keep_features_list))
  /\ UNCHANGED <<impute, do_scaling, remove_low_variance, keep_features_list,
                 rw_vars, tr_vars, ld_vars, fc_vars>>

PPNext == ConstructPipeline

SpecPipe == PPInit /\ [][PPNext]_vars

\* ----------------------------------------------------- claims: segmenter
\* what section 4.1 asks of the segmenter for a positive window and step
ExpectedCount(n, w, s) == Max(0, ((n - w) \div s) + 1)
ExpectedWindows(a, w, s) ==
  [i \in 1..ExpectedCount(Len(a), w, s) |->
     SubSeq(a, s * (i - 1) + 1, s * (i - 1) + w)]

RWValid == rw_window > 0 /\ rw_step > 0
RWDone == rw_out.kind # "pending"

\* C1: for every series, positive window w and positive step s, rolling_window
\* returns exactly max(0, floor((N-w)/s)+1) windows, window i being
\* series[s*i : s*i+w], whatever the values of the series are (None counting
\* as no window).
C1_RollingWindowExact ==
  (RWDone /\ RWValid) =>
     /\ rw_out.kind \in {"array", "None"}
     /\ rw_out.rows = ExpectedWindows(rw_a, rw_window, rw_step)

\* What the code does keep of C1: the windows are exact as soon as one of
\* them holds a non-zero value, and no wrapped-around value is ever returned.
RollingWindowExactUnlessAllZero ==
  (RWDone /\ RWValid) =>
     /\ rw_out.kind \in {"array", "None"}
     /\ rw_out.kind = "array" =>
          rw_out.rows = ExpectedWindows(rw_a, rw_window, rw_step)
     /\ rw_out.kind = "None" =>
          ~NpAny2D(ExpectedWindows(rw_a, rw_window, rw_step))

\* C6: with window <= 0 or step <= 0, rolling_window fails with
\* InvalidWindowConfig, for every series: no result, no other failure.
C6_InvalidConfigRejected ==
  (RWDone /\ ~RWValid) => rw_out.kind = "InvalidWindowConfig"

\* ----------------------------------------------------- claims: transform
TRDone == out.kind # "pending"
TRValid == window > 0 /\ step > 0

\* the rows segmentation produces for the call at hand, before any subsampling
Segmented == accumulate(X, y, groups, window, step, 1, empty_acc(window))
AvailableRows == Len(Segmented.rows) - 1

\* C3: the output of transform is index-aligned: rows, labels and groups have
\* one length, and row i carries the label and the group of the series it was
\* cut from, with and without subsampling.
C3_RowsLabelsGroupsAligned ==
  out.kind = "ok" =>
     /\ Len(out.target) = Len(out.rows)
     /\ Len(out.groups) = Len(out.rows)
     /\ \A i \in DOMAIN out.rows :
          /\ out.rows[i].src \in DOMAIN X
          /\ out.target[i] = y[out.rows[i].src]
          /\ out.groups[i] = groups[out.rows[i].src]

\* C3 witness: a subsampled output holding rows of two series of different labels
C3_Witness ==
  /\ out.kind = "ok"
  /\ n_samples # None
  /\ \E i, j \in DOMAIN out.rows :
       /\ out.rows[i].src # out.rows[j].src
       /\ out.target[i] # out.target[j]

\* C4: with n_samples = k and 1 <= k <= available rows, transform returns
\* exactly k rows sampled without replacement: no row index is drawn twice.
C4_SampledWithoutReplacement ==
  (TRDone /\ TRValid /\ Segmented.kind = "ok" /\ n_samples # None
     /\ n_samples[1] >= 1 /\ n_samples[1] <= AvailableRows) =>
     /\ out.kind = "ok"
     /\ Len(out.rows) = n_samples[1]
     /\ \A i, j \in DOMAIN out.sampled :
          i # j => out.sampled[i] # out.sampled[j]

\* C5: with n_samples = k greater than the number of rows segmentation
\* produced, transform fails with InsufficientSamplesError and returns nothing.
\* (Stated where segmentation produced at least one row; no row at all is C10.)
C5_TooManySamplesRejected ==
  (TRDone /\ TRValid /\ Segmented.kind = "ok" /\ AvailableRows >= 1
     /\ n_samples # None /\ n_samples[1] > AvailableRows) =>
     out.kind = "InsufficientSamplesError"

\* C10: a series too short for one window is left out without raising, and
\* when no series of the input yields a window, transform fails with
\* InsufficientSamplesError.
NoWindowAtAll ==
  /\ X # <<>>
  /\ \A i \in DOMAIN X : ExpectedCount(Len(X[i]), window, step) = 0

C10_EmptyResultIsInsufficientSamples ==
  (TRDone /\ TRValid /\ NoWindowAtAll) => out.kind = "InsufficientSamplesError"

\* The half of C10 the code keeps: a series that yields no window does not
\* make transform fail when another series yields one.
ShortSeriesSkipped ==
  (TRDone /\ TRValid /\ n_samples = None
     /\ \E i \in DOMAIN X : rolling_window(X[i], window, step).kind = "array") =>
     /\ out.kind = "ok"
     /\ \A i \in DOMAIN out.rows :
          ExpectedCount(Len(X[out.rows[i].src]), window, step) > 0

\* ------------------------------------------------------- claims: loaders
TrainGroups == {ld_groups[i] : i \in Range(split.train_index)}
TestGroups == {ld_groups[i] : i \in Range(split.test_index)}

\* C2: the split is made on whole series by group before segmentation: for
\* every test fraction the train and test group sets are disjoint, every series
\* is on exactly one side, and no window of one group is on both sides.
C2_GroupsDisjoint ==
  split.kind = "ok" =>
     /\ TrainGroups \cap TestGroups = {}
     /\ Range(split.train_index) \cap Range(split.test_index) = {}
     /\ Range(split.train_index) \cup Range(split.test_index) = DOMAIN ld_X
     /\ loaded.kind = "ok" =>
          \A i \in DOMAIN loaded.train.rows, j \in DOMAIN loaded.test.rows :
             ld_groups[split.train_index[loaded.train.rows[i].src]]
               # ld_groups[split.test_index[loaded.test.rows[j].src]]

\* C2 witness: a group with two series, windows on both sides of the split
C2_Witness ==
  /\ loaded.kind = "ok"
  /\ \E i, j \in DOMAIN ld_X : i # j /\ ld_groups[i] = ld_groups[j]
  /\ Len(loaded.train.rows) >= 2
  /\ Len(loaded.test.rows) >= 1

\* ---------------------------------------------- claims: feature taxonomy
FCDone == fc_dict # <<>>
Names(d) == DOMAIN d
FullNames == TsfreshCoreNames \cup fc_extra

\* C7: the name sets of distribution_features and temporal_features are
\* disjoint and their union is the name set of the full catalog.
C7_DistributionTemporalPartition ==
  FCDone =>
     /\ Names(fc_dict.distribution_features)
          \cap Names(fc_dict.temporal_features) = {}
     /\ Names(fc_dict.distribution_features)
          \cup Names(fc_dict.temporal_features) = FullNames

\* C7 witness: temporal_features was asked for, of a catalog with
\* version-dependent names, and holds some of them
C7_Witness ==
  /\ FCDone
  /\ feature_set = "temporal_features"
  /\ fc_extra # {}
  /\ fc_extra \subseteq Names(fc_out)
  /\ "median" \notin Names(fc_out)

\* C9 as claimed: simple_baseline, distribution_features and
\* temporal_features are pairwise disjoint name sets, and with the
\* unclassified entries their union is the full catalog.
C9_ThreeSubsetsDisjoint ==
  FCDone =>
     /\ Names(fc_dict.simple_baseline)
          \cap Names(fc_dict.distribution_features) = {}
     /\ Names(fc_dict.simple_baseline) \cap Names(fc_dict.temporal_features) = {}
     /\ Names(fc_dict.distribution_features)
          \cap Names(fc_dict.temporal_features) = {}
     /\ (Names(fc_dict.simple_baseline) \cup Names(fc_dict.distribution_features)
          \cup Names(fc_dict.temporal_features)) \subseteq FullNames

\* C9 amended: simple_baseline is a subset of distribution_features (all six
\* baseline names are distribution features too); distribution_features and
\* temporal_features are disjoint, so simple_baseline and temporal_features
\* are; the union of the three is the full catalog, nothing left unclassified.
C9_BaselineInsideDistribution ==
  FCDone =>
     /\ Names(fc_dict.simple_baseline) \subseteq Names(fc_dict.distribution_features)
     /\ Cardinality(Names(fc_dict.simple_baseline)) = 6
     /\ Names(fc_dict.simple_baseline) \cap Names(fc_dict.temporal_features) = {}
     /\ Names(fc_dict.distribution_features)
          \cap Names(fc_dict.temporal_features) = {}
     /\ (Names(fc_dict.simple_baseline) \cup Names(fc_dict.distribution_features)
          \cup Names(fc_dict.temporal_features)) = FullNames

\* C9 witness: simple_baseline was asked for and returned
C9_Witness ==
  /\ FCDone
  /\ feature_set = "simple_baseline"
  /\ fc_out = fc_dict.simple_baseline
  /\ "median" \in Names(fc_out)

\* ------------------------------------------------------ claims: pipeline
FixedOrder ==
  <<"select_features", "imputation", "standard_scaling", "low_var_removal">>

Enabled(name) ==
  CASE name = "select_features" -> keep_features_list # None
    [] name = "imputation" -> impute
    [] name = "standard_scaling" -> do_scaling
    [] name = "low_var_removal" -> remove_low_variance

Position(name) == CHOOSE k \in DOMAIN FixedOrder : FixedOrder[k] = name

\* C8: for each of the 16 flag combinations the step list is the subsequence
\* of (select_features, imputation, standard_scaling, low_var_removal) of
\* exactly the enabled steps: none missing, none twice, none out of order.
C8_PipelineOrder ==
  pipeline # None =>
     LET steps == pipeline[1]
     IN  /\ \A k \in DOMAIN steps : steps[k].name \in Range(FixedOrder)
         /\ {steps[k].name : k \in DOMAIN steps}
              = {n \in Range(FixedOrder) : Enabled(n)}
         /\ \A j, k \in DOMAIN steps :
              j < k => Position(steps[j].name) < Position(steps[k].name)

\* C8 witness: all four steps enabled and the pipeline built
C8_Witness ==
  /\ pipeline # None
  /\ Len(pipeline[1]) = 4
  /\ impute /\ do_scaling /\ remove_low_variance
  /\ keep_features_list # None

\* ----------------------------------------------- claims: placeholder row
\* the windows of series i on, in the order the segmenter produced them
RECURSIVE AllProduced(_)
AllProduced(i) ==
  IF i > Len(X) THEN <<>>
  ELSE LET produced == rolling_window(X[i], window, step).rows
       IN  [k \in DOMAIN produced |-> Row(produced[k], i, k - 1)]
             \o AllProduced(i + 1)

\* row r is cut from the input: it is the contiguous slice of length window
\* that starts at offset step * r.idx of series r.src
CutFromInput(r) ==
  /\ r.src \in DOMAIN X
  /\ r.idx >= 0
  /\ step * r.idx >= 0
  /\ step * r.idx + window <= Len(X[r.src])
  /\ r.vals = SubSeq(X[r.src], step * r.idx + 1, step * r.idx + window)

\* C11: the all-zero row that seeds the accumulator never appears in the
\* output: every output row, subsampled or not, is a window cut from a series
\* of the input, and the rows returned once the series are processed (no
\* n_samples subsampling them) are the windows the segmenter produced over all
\* series, as many and in that order.
C11_SeedRowNeverReturned ==
  out.kind = "ok" =>
     /\ \A i \in DOMAIN out.rows : CutFromInput(out.rows[i])
     /\ n_samples = None =>
          /\ Len(out.rows) = Len(AllProduced(1))
          /\ out.rows = AllProduced(1)

\* C11 witness: windows of two series returned, the first of them all-zero
\* like the seed row yet cut from the input
C11_Witness ==
  /\ out.kind = "ok"
  /\ n_samples = None
  /\ Len(out.rows) >= 3
  /\ \E i, j \in DOMAIN out.rows : out.rows[i].src # out.rows[j].src
  /\ out.rows[1].vals = seed_row(window).vals

====
